---- MODULE Spec2Model ----
(***************************************************************************)
(* Model of the firmware byte-stream parser of the Game Boy Printer web    *)
(* client (src/js/printer.js): the marker window, the packet state         *)
(* machine, the print buffer, RLE decompression and the render hand-off,   *)
(* driven by the read loop (printerLoop) over chunks the device delivers.  *)
(***************************************************************************)
EXTENDS Integers, Sequences, FiniteSets, TLC

VARIABLES
    printer,   \* the GameBoyPrinter instance: a record of its fields
    bytes,     \* printerLoop: the bytes of the current chunk not yet processed
    wire,      \* bytes the device holds and has not yet transferred
    abandoned, \* transferIn calls still pending whose read() has timed out
    menu,      \* the traffic of this run (segments, depth, silences)
    nSent,     \* number of segments the device has emitted
    prev,      \* history: the printer as it was before the last loop step
    event,     \* history: the last loop step ("byte" with its byte, "fail", ...)
    fed,       \* history: every byte handed to processFirmwareByte, in order
    pkt,       \* history: the packet in progress since its command byte
    acct,      \* history: session accounting (payloads dispatched, renders due,
               \* bytes fed in a row that left the parser outside WAIT_COMMAND)
    delivered, \* history: every byte the device has transferred, in order
    call       \* a method invoked on its own: name, argument, result

vars == <<printer, bytes, wire, abandoned, menu, nSent, prev, event, fed, pkt,
          acct, delivered, call>>

\* ---------------------------------------------------------------- bounds
\* Segments the device emits in one run (each menu adds its own offset).
MaxSends == 3
\* Timed-out reads whose transfer may still be pending at one time.
MaxAbandoned == 2
\* Runs in an RLE stream handed to decompressRLE on its own.
MaxRuns == 2
\* Length of the raw sequences encoded and decompressed again.
MaxRaw == 5
\* Tiles in the largest buffer handed to renderImage on its own.
MaxTiles == 21

\* ------------------------------------------------------ protocol constants
INIT == 1
PRINT == 2
DATA == 4
BREAK == 8
INQUIRY == 15

WAIT_START == 0
WAIT_COMMAND == 1
WAIT_COMPRESSION == 2
WAIT_LEN_LOW == 3
WAIT_LEN_HIGH == 4
READ_DATA == 5

StartMarker == 255
PrintMarker == 254
MaxPacketLength == 1000
PRINT_TIMEOUT_MS == 2000
ReadSize == 64
tilesPerRow == 20
bytesPerTile == 16

PALETTE == <<<<255, 255, 255>>, <<170, 170, 170>>, <<85, 85, 85>>, <<0, 0, 0>>>>

\* "ABORTPRINT"
abortMarker == <<65, 66, 79, 82, 84, 80, 82, 73, 78, 84>>

validCommands == {INIT, PRINT, DATA, BREAK, INQUIRY}

\* ------------------------------------------------------------ arithmetic
Min(a, b) == IF a < b THEN a ELSE b

RECURSIVE BitAnd(_, _)
BitAnd(a, b) ==
    IF a = 0 \/ b = 0 THEN 0
    ELSE (a % 2) * (b % 2) + 2 * BitAnd(a \div 2, b \div 2)

RECURSIVE BitOr(_, _)
BitOr(a, b) ==
    IF a = 0 THEN b
    ELSE IF b = 0 THEN a
    ELSE (IF a % 2 = 1 \/ b % 2 = 1 THEN 1 ELSE 0) + 2 * BitOr(a \div 2, b \div 2)

ShiftLeft8(b) == b * 256

ShiftRight(b, n) == b \div (2 ^ n)

Rep(v, n) == [k \in 1..n |-> v]

LastN(s, n) == IF Len(s) <= n THEN s ELSE SubSeq(s, Len(s) - n + 1, Len(s))

\* ------------------------------------------------------- RLE decompressor
RECURSIVE rleFrom(_, _)
rleFromShortRepeat(data, i) ==
    IF i > Len(data) THEN <<>>
    ELSE LET control == data[i] IN
         IF BitAnd(control, 128) # 0
         THEN LET count == BitAnd(control, 127) + 1
                  value == IF i + 1 <= Len(data) THEN data[i + 1] ELSE 0
              IN  Rep(value, count) \o rleFrom(data, i + 2)
         ELSE LET count == control + 1
                  n == Min(count, Len(data) - i)
              IN  SubSeq(data, i + 1, i + n) \o rleFrom(data, i + 1 + n)

rleFromShortLiteral(data, i) ==
    IF i > Len(data) THEN <<>>
    ELSE LET control == data[i] IN
         IF BitAnd(control, 128) # 0
         THEN LET count == BitAnd(control, 127) + 2
                  value == IF i + 1 <= Len(data) THEN data[i + 1] ELSE 0
              IN  Rep(value, count) \o rleFrom(data, i + 2)
         ELSE LET count == control
                  n == Min(count, Len(data) - i)
              IN  SubSeq(data, i + 1, i + n) \o rleFrom(data, i + 1 + n)

rleFrom(data, i) ==
    IF i > Len(data) THEN <<>>
    ELSE LET control == data[i] IN
         IF BitAnd(control, 128) # 0
         THEN LET count == BitAnd(control, 127) + 2
                  value == IF i + 1 <= Len(data) THEN data[i + 1] ELSE 0
              IN  Rep(value, count) \o rleFrom(data, i + 2)
         ELSE LET count == control + 1
                  n == Min(count, Len(data) - i)
              IN  SubSeq(data, i + 1, i + n) \o rleFrom(data, i + 1 + n)

decompressRLE(data) == rleFrom(data, 1)

\* ------------------------------------------------------------- the sink
updateStatus(s, text) == [s EXCEPT !.statusText = text]

renderImageFloorRows(s, data) ==
    LET totalTiles == Len(data) \div bytesPerTile
        tileRows == totalTiles \div tilesPerRow
        canvas == [id |-> s.imageCount,
                   width |-> tilesPerRow * 8,
                   height |-> tileRows * 8,
                   totalTiles |-> totalTiles,
                   data |-> data]
    IN  updateStatus([s EXCEPT !.canvases = Append(@, canvas),
                               !.imageCount = @ + 1],
                     "Image received! Waiting for more...")

renderImageCeilTiles(s, data) ==
    LET totalTiles == (Len(data) + bytesPerTile - 1) \div bytesPerTile
        tileRows == (totalTiles + tilesPerRow - 1) \div tilesPerRow
        canvas == [id |-> s.imageCount,
                   width |-> tilesPerRow * 8,
                   height |-> tileRows * 8,
                   totalTiles |-> totalTiles,
                   data |-> data]
    IN  updateStatus([s EXCEPT !.canvases = Append(@, canvas),
                               !.imageCount = @ + 1],
                     "Image received! Waiting for more...")

\* The canvas appended to the container: its dimensions and the buffer its
\* pixels are decoded from (decodeTile reads data[tileIndex * 16 ..]).
renderImage(s, data) ==
    LET totalTiles == Len(data) \div bytesPerTile
        tileRows == (totalTiles + tilesPerRow - 1) \div tilesPerRow
        canvas == [id |-> s.imageCount,
                   width |-> tilesPerRow * 8,
                   height |-> tileRows * 8,
                   totalTiles |-> totalTiles,
                   data |-> data]
    IN  updateStatus([s EXCEPT !.canvases = Append(@, canvas),
                               !.imageCount = @ + 1],
                     "Image received! Waiting for more...")

\* data[k] || 0, with k counted from 0 as in the code.
byteAt(data, k) == IF k < Len(data) THEN data[k + 1] ELSE 0

colorIndex(byte1, byte2, bit) ==
    BitOr(BitAnd(ShiftRight(byte1, bit), 1),
          BitAnd(ShiftRight(byte2, bit), 1) * 2)

decodeTilePlanesSwapped(data, offset, row, col) ==
    LET byte1 == byteAt(data, offset + row * 2 + 1)
        byte2 == byteAt(data, offset + row * 2)
        color == PALETTE[colorIndex(byte1, byte2, 7 - col) + 1]
    IN  <<color[1], color[2], color[3], 255>>

\* decodeTile: the four bytes written for the pixel at (row, col) of a tile.
decodeTile(data, offset, row, col) ==
    LET byte1 == byteAt(data, offset + row * 2)
        byte2 == byteAt(data, offset + row * 2 + 1)
        color == PALETTE[colorIndex(byte1, byte2, 7 - col) + 1]
    IN  <<color[1], color[2], color[3], 255>>

tileOriginNarrow(tileIndex) ==
    <<(tileIndex % tilesPerRow) * 7, (tileIndex \div tilesPerRow) * 8>>

\* The tile loop: tile tileIndex is met at tileX = tileIndex mod 20 of row
\* tileY = tileIndex div 20 and decoded at (tileX * 8, tileY * 8).
tileOrigin(tileIndex) ==
    <<(tileIndex % tilesPerRow) * 8, (tileIndex \div tilesPerRow) * 8>>

\* Every write of the tile loop: the tile, the pixel and the offset of its
\* first byte in the image data.
pixelWrites(canvas) ==
    {[tile |-> i,
      x |-> tileOrigin(i)[1] + col,
      y |-> tileOrigin(i)[2] + row,
      pixelOffset |-> ((tileOrigin(i)[2] + row) * canvas.width
                         + tileOrigin(i)[1] + col) * 4,
      px |-> decodeTile(canvas.data, i * bytesPerTile, row, col)] :
        i \in 0..(canvas.totalTiles - 1), row \in 0..7, col \in 0..7}

\* The image data put on a canvas, pixel by pixel: createImageData starts
\* transparent black, the tile loop writes tile tileY * 20 + tileX at
\* (tileX * 8, tileY * 8) for the tiles below totalTiles.
canvasPixel(canvas, x, y) ==
    LET tileIndex == (y \div 8) * tilesPerRow + (x \div 8)
    IN  IF tileIndex < canvas.totalTiles
        THEN decodeTile(canvas.data, tileIndex * bytesPerTile, y % 8, x % 8)
        ELSE <<0, 0, 0, 0>>

\* ------------------------------------------------- the session accumulator
appendDataRaw(s) == s.printData \o s.currentPacketData

appendData(s) ==
    IF s.currentCompression = 0
    THEN s.printData \o s.currentPacketData
    ELSE s.printData \o decompressRLE(s.currentPacketData)

processPacketFallsThrough(s) ==
    IF s.currentCommand = INIT
    THEN updateStatus([s EXCEPT !.printData = <<>>,
                                !.currentPacketData = <<>>],
                      "Ready for print data")
    ELSE updateStatus([s EXCEPT !.printData = appendData(s)], "Receiving")

processPacket(s) ==
    IF s.currentCommand = INIT
    THEN updateStatus([s EXCEPT !.printData = <<>>,
                                !.currentPacketData = <<>>],
                      "Ready for print data")
    ELSE IF s.currentCommand = DATA
    THEN LET t == [s EXCEPT !.printData = appendData(s)]
         IN  updateStatus(t, "Receiving")
    ELSE IF s.currentCommand = PRINT
    THEN updateStatus(s, "Waiting for image...")
    ELSE s

\* ------------------------------------------------------ the marker window
pushRecent(recent, byte) ==
    LET r == Append(recent, byte)
    IN  IF Len(r) > 10 THEN Tail(r) ELSE r

abortMatchedNine(recent) ==
    Len(recent) >= 9 /\ \A i \in 1..9 : recent[i] = abortMarker[i]

abortMatched(recent) ==
    Len(recent) = 10 /\ \A i \in 1..10 : recent[i] = abortMarker[i]

abortResetParserOnly(s) ==
    updateStatus([s EXCEPT !.recentBytes = <<>>,
                           !.parserState = WAIT_COMMAND],
                 "Print aborted - ready")

abortReset(s) ==
    updateStatus([s EXCEPT !.printData = <<>>,
                           !.currentPacketData = <<>>,
                           !.recentBytes = <<>>,
                           !.parserState = WAIT_COMMAND],
                 "Print aborted - ready")

\* ------------------------------------------------------ the packet parser
startMarkerKeepsData(s) ==
    updateStatus([s EXCEPT !.currentPacketData = <<>>], "Ready for print")

startMarkerReset(s) ==
    updateStatus([s EXCEPT !.printData = <<>>,
                           !.currentPacketData = <<>>],
                 "Ready for print")

printMarkerKeepsData(s) ==
    IF Len(s.printData) > 0 THEN renderImage(s, s.printData) ELSE s

printMarkerAlways(s) ==
    [renderImage(s, s.printData) EXCEPT !.printData = <<>>]

printMarkerFromTile(s) ==
    IF Len(s.printData) >= bytesPerTile
    THEN [renderImage(s, s.printData) EXCEPT !.printData = <<>>]
    ELSE s

printMarker(s) ==
    IF Len(s.printData) > 0
    THEN [renderImage(s, s.printData) EXCEPT !.printData = <<>>]
    ELSE s

acceptCommand(s, byte) ==
    LET t == [s EXCEPT !.currentCommand = byte,
                       !.parserState = WAIT_COMPRESSION]
    IN  IF byte = DATA THEN updateStatus(t, "Receiving print data...")
        ELSE IF byte = PRINT THEN updateStatus(t, "Print command!")
        ELSE IF byte = INIT
        THEN updateStatus([t EXCEPT !.printData = <<>>], "Init - buffer cleared")
        ELSE IF byte = INQUIRY THEN updateStatus(t, "Status inquiry")
        ELSE t

waitCommandSyncResets(s, byte) ==
    IF byte = StartMarker THEN startMarkerReset(s)
    ELSE IF byte = PrintMarker THEN printMarker(s)
    ELSE IF byte = 136 \/ byte = 51 THEN startMarkerReset(s)
    ELSE IF byte \notin validCommands THEN s
    ELSE acceptCommand(s, byte)

waitCommand(s, byte) ==
    IF byte = StartMarker THEN startMarkerReset(s)
    ELSE IF byte = PrintMarker THEN printMarker(s)
    ELSE IF byte = 136 \/ byte = 51 THEN s
    ELSE IF byte \notin validCommands THEN s
    ELSE acceptCommand(s, byte)

validCompressionNever(byte) == byte = 0 /\ byte = 1

validCompression(byte) == byte = 0 \/ byte = 1

waitCompressionToStart(s, byte) ==
    IF ~validCompression(byte)
    THEN [s EXCEPT !.parserState = WAIT_START]
    ELSE [s EXCEPT !.currentCompression = byte, !.parserState = WAIT_LEN_LOW]

waitCompression(s, byte) ==
    IF ~validCompression(byte)
    THEN [s EXCEPT !.parserState = WAIT_COMMAND]
    ELSE [s EXCEPT !.currentCompression = byte,
                   !.parserState = WAIT_LEN_LOW]

waitLenLow(s, byte) ==
    [s EXCEPT !.currentLength = byte, !.parserState = WAIT_LEN_HIGH]

lengthInvalidFrom1000(len) == len >= MaxPacketLength

lengthInvalidAbove2000(len) == len > 2 * MaxPacketLength

lengthInvalid(len) == len > MaxPacketLength

waitLenHigh(s, byte) ==
    LET t == [s EXCEPT !.currentLength = BitOr(@, ShiftLeft8(byte)),
                       !.currentDataIndex = 0,
                       !.currentPacketData = <<>>]
    IN  IF lengthInvalid(t.currentLength)
        THEN [t EXCEPT !.parserState = WAIT_COMMAND]
        ELSE IF t.currentLength > 0
        THEN [t EXCEPT !.parserState = READ_DATA]
        ELSE [processPacket(t) EXCEPT !.parserState = WAIT_COMMAND]

packetCompleteLate(index, length) == index > length

packetComplete(index, length) == index >= length

readData(s, byte) ==
    LET t == [s EXCEPT !.currentPacketData = Append(@, byte),
                       !.currentDataIndex = @ + 1]
    IN  IF packetComplete(t.currentDataIndex, t.currentLength)
        THEN [processPacket(t) EXCEPT !.parserState = WAIT_COMMAND]
        ELSE t

parseByteMarkersFirst(s, byte) ==
    IF byte = StartMarker THEN startMarkerReset(s)
    ELSE IF byte = PrintMarker THEN printMarker(s)
    ELSE CASE s.parserState = WAIT_START -> s
           [] s.parserState = WAIT_COMMAND -> waitCommand(s, byte)
           [] s.parserState = WAIT_COMPRESSION -> waitCompression(s, byte)
           [] s.parserState = WAIT_LEN_LOW -> waitLenLow(s, byte)
           [] s.parserState = WAIT_LEN_HIGH -> waitLenHigh(s, byte)
           [] s.parserState = READ_DATA -> readData(s, byte)

parseByte(s, byte) ==
    CASE s.parserState = WAIT_START -> s
      [] s.parserState = WAIT_COMMAND -> waitCommand(s, byte)
      [] s.parserState = WAIT_COMPRESSION -> waitCompression(s, byte)
      [] s.parserState = WAIT_LEN_LOW -> waitLenLow(s, byte)
      [] s.parserState = WAIT_LEN_HIGH -> waitLenHigh(s, byte)
      [] s.parserState = READ_DATA -> readData(s, byte)

processFirmwareByte(s, byte) ==
    LET t == [s EXCEPT !.recentBytes = pushRecent(@, byte)]
    IN  IF abortMatched(t.recentBytes)
        THEN abortReset(t)
        ELSE parseByte(t, byte)

\* ------------------------------------------------- the print-timeout policy
printStaleAnyBuffer(s, elapsed) ==
    s.lastDataTime > 0 /\ elapsed > PRINT_TIMEOUT_MS

printStale(s, elapsed) ==
    Len(s.printData) > 0 /\ s.lastDataTime > 0 /\ elapsed > PRINT_TIMEOUT_MS

printTimeoutKeepsState(s, elapsed) ==
    IF printStale(s, elapsed)
    THEN updateStatus([s EXCEPT !.printData = <<>>,
                                !.currentPacketData = <<>>],
                      "Print canceled - ready")
    ELSE s

printTimeout(s, elapsed) ==
    IF printStale(s, elapsed)
    THEN updateStatus([s EXCEPT !.printData = <<>>,
                                !.parserState = WAIT_COMMAND,
                                !.currentPacketData = <<>>],
                      "Print canceled - ready")
    ELSE s

\* ------------------------------------------------------------ the device
\* Segments the firmware emits.  A segment longer than ReadSize reaches the
\* loop as several chunks.
DataRaw3 == <<4, 0, 3, 0, 17, 34, 51>>
DataRle == <<4, 1, 2, 0, 131, 127>>
PrintPkt == <<2, 0, 4, 0, 1, 0, 228, 64>>
InquiryPkt == <<15, 0, 0, 0>>
BreakPkt == <<8, 1, 1, 0, 9>>
InitPkt == <<1, 0, 0, 0>>
SyncNoise == <<136, 51, 0>>
AbortAllButLast == SubSeq(abortMarker, 1, 9)
TilePayload(k) == [j \in 1..(bytesPerTile * k) |-> (j * 7) % 256]
TilePkt(k) ==
    <<DATA, 0, (bytesPerTile * k) % 256, (bytesPerTile * k) \div 256>>
        \o TilePayload(k)

FramingMenu ==
    [segs |-> {<<4>>, <<0>>, <<1>>, <<255>>, <<254>>}, extra |-> 3, quiet |-> 0]
PacketMenu ==
    [segs |-> {DataRaw3, DataRle, PrintPkt, InquiryPkt, BreakPkt, InitPkt,
               <<254>>, <<255>>, <<4>>, SyncNoise},
     extra |-> 1, quiet |-> 0]
AbortMenu ==
    [segs |-> {abortMarker, AbortAllButLast, <<84>>, DataRaw3,
               <<4, 0, 12, 0>>, <<4, 0, 2, 0>>, <<1, 0, 9, 0>>,
               <<4>>, <<4, 0>>, <<4, 0, 12>>},
     extra |-> 0, quiet |-> 0]
LengthMenu ==
    [segs |-> {<<4, 0>>, <<1, 0>>, <<232, 3>>, <<233, 3>>, <<208, 7>>, <<0, 0>>},
     extra |-> 2, quiet |-> 0]
TileMenu ==
    [segs |-> {<<255>>, <<254>>, TilePkt(1), TilePkt(20), TilePkt(21)},
     extra |-> 0, quiet |-> 1]

\* A device that also falls silent for longer than the read timeout (quiet:
\* the number of its segments that such a silence can precede).
QuietMenu ==
    [segs |-> {DataRaw3, <<4, 0>>, <<2, 0, 255, 254>>, <<254>>, <<255>>},
     extra |-> 0, quiet |-> MaxSends]

\* Prints of less than a tile, of one tile and of a tile and three bytes.
PrintMenu ==
    [segs |-> {DataRaw3, TilePkt(1), <<254>>, <<255>>}, extra |-> 0, quiet |-> 1]

\* A Data packet of the longest length accepted, and a loose command byte.
LongPkt == <<DATA, 0, 232, 3>> \o [j \in 1..MaxPacketLength |-> (j * 7) % 256]

LongMenu == [segs |-> {LongPkt, <<8>>}, extra |-> -1, quiet |-> 1]

Menus == {FramingMenu, PacketMenu, AbortMenu, LengthMenu, QuietMenu}

\* Milliseconds since the last data when a read fails: a transfer error can
\* come at once, a read timeout comes after ReadTimeoutMs without data.
ReadTimeoutMs == 5000
Elapsed == {PRINT_TIMEOUT_MS, ReadTimeoutMs}

\* ------------------------------------------------------------- histories
\* The packet framing as the protocol defines it, kept from the bytes alone.
AbortNow(f) == LastN(f, 10) = abortMarker

DeclaredLength(f) == f[3] + 256 * f[4]

PktDesync(f) ==
    \/ Len(f) = 2 /\ f[2] \notin {0, 1}
    \/ Len(f) = 4 /\ DeclaredLength(f) > 1000

PktComplete(f) ==
    /\ Len(f) >= 4
    /\ f[2] \in {0, 1}
    /\ DeclaredLength(f) <= 1000
    /\ Len(f) = 4 + DeclaredLength(f)

PktPayload(f) == SubSeq(f, 5, Len(f))

PktNext(k, s, b, allFed) ==
    IF AbortNow(allFed)
    THEN [k EXCEPT !.open = FALSE, !.done = FALSE, !.aborted = TRUE]
    ELSE IF ~k.open
    THEN IF b \in validCommands
         THEN [open |-> TRUE, fed |-> <<b>>, buf |-> s.printData,
               fromWait |-> (s.parserState = WAIT_COMMAND),
               done |-> FALSE, aborted |-> FALSE]
         ELSE [k EXCEPT !.done = FALSE, !.aborted = FALSE]
    ELSE LET f == Append(k.fed, b)
         IN  [k EXCEPT !.fed = f,
                       !.open = ~(PktDesync(f) \/ PktComplete(f)),
                       !.done = PktComplete(f)]

\* The session as the protocol defines it: the payloads of the Data packets
\* dispatched since the last reset, and the buffers due for a render.
Dispatched(k2) == k2.done

AcctNext(a, k, k2, s, b, allFed) ==
    LET marker(m) == ~k.open /\ b = m /\ ~AbortNow(allFed)
        initByte == ~k.open /\ b = INIT /\ ~AbortNow(allFed)
        payload == IF k2.fed[2] = 0 THEN PktPayload(k2.fed)
                   ELSE decompressRLE(PktPayload(k2.fed))
        after(e) ==
            IF AbortNow(allFed) \/ marker(StartMarker) \/ marker(PrintMarker)
            THEN <<>>
            ELSE IF Dispatched(k2) /\ k2.fed[1] = INIT THEN <<>>
            ELSE IF Dispatched(k2) /\ k2.fed[1] = DATA THEN e \o payload
            ELSE e
    IN  [expect |-> after(a.expect),
         expectInit |-> IF initByte THEN <<>> ELSE after(a.expectInit),
         renders |-> IF marker(PrintMarker) /\ Len(s.printData) > 0
                     THEN Append(a.renders, s.printData)
                     ELSE a.renders,
         markers |-> IF marker(PrintMarker) /\ Len(s.printData) > 0
                     THEN a.markers + 1 ELSE a.markers,
         cancels |-> a.cancels,
         away |-> a.away]

\* ---------------------------------------------------------------- actions
NewPrinter ==
    [printData |-> <<>>, totalBytesReceived |-> 0, imageCount |-> 0,
     parserState |-> WAIT_COMMAND, currentCommand |-> 0,
     currentCompression |-> 0, currentLength |-> 0, currentDataIndex |-> 0,
     currentPacketData |-> <<>>, lastDataTime |-> 0, recentBytes |-> <<>>,
     statusText |-> "", canvases |-> <<>>]

NoPacket ==
    [open |-> FALSE, fed |-> <<>>, buf |-> <<>>, fromWait |-> TRUE,
     done |-> FALSE, aborted |-> FALSE]

NoEvent == [kind |-> "new", byte |-> 0, elapsed |-> 0, cause |-> ""]

InitWith(ms) ==
    /\ printer = NewPrinter
    /\ bytes = <<>>
    /\ wire = <<>>
    /\ abandoned = 0
    /\ menu \in ms
    /\ nSent = 0
    /\ prev = NewPrinter
    /\ event = NoEvent
    /\ fed = <<>>
    /\ pkt = NoPacket
    /\ acct = [expect |-> <<>>, expectInit |-> <<>>, renders |-> <<>>,
               markers |-> 0, cancels |-> 0, away |-> 0]
    /\ delivered = <<>>

NoCall ==
    [fn |-> "none", arg |-> <<>>, ret |-> <<>>, done |-> FALSE,
     kind |-> "", runs |-> <<>>, raw |-> <<>>]

Init == InitWith(Menus) /\ call = NoCall

\* What the device transfers next: up to ReadSize bytes per transferIn.
Incoming ==
    IF wire # <<>> THEN {wire}
    ELSE IF nSent < MaxSends + menu.extra THEN menu.segs ELSE {}

Transfer(seg) ==
    LET n == Min(ReadSize, Len(seg))
    IN  /\ wire' = SubSeq(seg, n + 1, Len(seg))
        /\ nSent' = IF wire # <<>> THEN nSent ELSE nSent + 1
        /\ delivered' = delivered \o SubSeq(seg, 1, n)

\* printerLoop: serial.read(64) resolves with the next chunk.  Transfers on
\* the endpoint complete in the order they were submitted, so the loop's own
\* transfer is served once no abandoned one is ahead of it.
ReadChunk ==
    /\ bytes = <<>>
    /\ abandoned = 0
    /\ \E seg \in Incoming :
         /\ Transfer(seg)
         /\ bytes' = SubSeq(seg, 1, Min(ReadSize, Len(seg)))
    /\ printer' = [printer EXCEPT !.lastDataTime = 1]
    /\ prev' = printer
    /\ event' = [kind |-> "chunk", byte |-> 0, elapsed |-> 0, cause |-> ""]
    /\ UNCHANGED <<abandoned, menu, fed, pkt, acct, call>>

\* Serial.read: the transferIn of a read that has timed out completes.  Its
\* promise is already rejected, so resolve(result) does nothing and the
\* chunk reaches nobody.
ReadAbandoned ==
    /\ bytes = <<>>
    /\ abandoned > 0
    /\ \E seg \in Incoming : Transfer(seg)
    /\ abandoned' = abandoned - 1
    /\ prev' = printer
    /\ event' = [kind |-> "lost", byte |-> 0, elapsed |-> 0, cause |-> ""]
    /\ UNCHANGED <<printer, bytes, menu, fed, pkt, acct, call>>

\* printerLoop: one turn of the loop over the chunk's bytes.
ProcessByte ==
    /\ bytes # <<>>
    /\ LET b == Head(bytes)
           f == Append(fed, b)
           k == PktNext(pkt, printer, b, f)
       IN  /\ printer' = [processFirmwareByte(printer, b)
                            EXCEPT !.totalBytesReceived = @ + 1]
           /\ fed' = f
           /\ pkt' = k
           /\ acct' = [AcctNext(acct, pkt, k, printer, b, f) EXCEPT
                         !.away = IF printer'.parserState = WAIT_COMMAND
                                  THEN 0 ELSE @ + 1]
           /\ event' = [kind |-> "byte", byte |-> b, elapsed |-> 0, cause |-> ""]
    /\ bytes' = Tail(bytes)
    /\ prev' = printer
    /\ UNCHANGED <<wire, abandoned, menu, nSent, delivered, call>>

\* printerLoop: the read failed.  Either the transfer was rejected, or
\* Serial.read's timer rejected the read after ReadTimeoutMs and left its
\* transferIn pending.
ReadFail ==
    /\ bytes = <<>>
    /\ \E cause \in {"timeout", "error"} : \E elapsed \in Elapsed :
         /\ cause = "timeout" =>
              /\ nSent < menu.quiet
              /\ elapsed = ReadTimeoutMs
              /\ abandoned < MaxAbandoned
         /\ abandoned' = IF cause = "timeout" THEN abandoned + 1 ELSE abandoned
         /\ printer' = printTimeout(printer, elapsed)
         /\ event' = [kind |-> "fail", byte |-> 0, elapsed |-> elapsed,
                       cause |-> cause]
    /\ prev' = printer
    /\ pkt' = IF printer' # printer
              THEN [pkt EXCEPT !.open = FALSE, !.done = FALSE, !.aborted = FALSE]
              ELSE [pkt EXCEPT !.done = FALSE, !.aborted = FALSE]
    /\ acct' = IF printer' # printer
               THEN [acct EXCEPT !.expect = <<>>, !.expectInit = <<>>,
                                 !.cancels = @ + 1, !.away = 0]
               ELSE acct
    /\ UNCHANGED <<bytes, wire, menu, nSent, fed, delivered, call>>

Next == ReadChunk \/ ReadAbandoned \/ ProcessByte \/ ReadFail

Spec == Init /\ [][Next]_vars

\* The end-to-end runs: whole tiles, one and twenty-one to a packet.
InitTiles == InitWith({TileMenu}) /\ call = NoCall

SpecTiles == InitTiles /\ [][Next]_vars

\* The runs that print short buffers.
InitPrint == InitWith({PrintMenu}) /\ call = NoCall

SpecPrint == InitPrint /\ [][Next]_vars

\* The runs with payloads of the longest length.
InitLong == InitWith({LongMenu, LengthMenu}) /\ call = NoCall

SpecLong == InitLong /\ [][Next]_vars

\* ------------------------------------------- decompressRLE on its own
\* A run of an RLE stream: n copies of one value, or n literal bytes.
RleValues == {0, 127, 128, 255}

RepeatRuns ==
    {[kind |-> "repeat", n |-> n, v |-> <<v>>] : n \in {2, 3, 5, 129}, v \in RleValues}

LiteralRuns ==
    {[kind |-> "literal", n |-> Len(v), v |-> v] :
        v \in {<<a>> : a \in RleValues}
              \cup {<<a, b>> : a \in RleValues, b \in RleValues}
              \cup {<<170, 187, 204>>, [j \in 1..128 |-> (j * 3) % 256]}}

RleRuns == RepeatRuns \cup LiteralRuns

RunLists == UNION {[1..k -> RleRuns] : k \in 0..MaxRuns}

EncodeRun(r) ==
    IF r.kind = "repeat" THEN <<128 + (r.n - 2), r.v[1]>> ELSE <<r.n - 1>> \o r.v

RunOutput(r) == IF r.kind = "repeat" THEN Rep(r.v[1], r.n) ELSE r.v

RECURSIVE Flatten(_)
Flatten(ss) == IF ss = <<>> THEN <<>> ELSE Head(ss) \o Flatten(Tail(ss))

EncodeRuns(rs) == Flatten([k \in 1..Len(rs) |-> EncodeRun(rs[k])])

RunsOutput(rs) == Flatten([k \in 1..Len(rs) |-> RunOutput(rs[k])])

\* The reference encoder: the longest repeat run (2..129) where two equal
\* bytes meet, else the longest literal run (1..128) up to the next such pair.
PairAt(x, j) == j < Len(x) /\ x[j + 1] = x[j]

RunLen(x, i) ==
    CHOOSE r \in 1..(Len(x) - i + 1) :
        /\ \A j \in i..(i + r - 1) : x[j] = x[i]
        /\ i + r > Len(x) \/ x[i + r] # x[i]

LitLen(x, i) ==
    CHOOSE n \in 1..(Len(x) - i + 1) :
        /\ \A j \in (i + 1)..(i + n - 1) : ~PairAt(x, j)
        /\ i + n > Len(x) \/ PairAt(x, i + n)

RECURSIVE encodeFrom(_, _)
encodeFrom(x, i) ==
    IF i > Len(x) THEN <<>>
    ELSE LET r == Min(RunLen(x, i), 129) IN
         IF r >= 2
         THEN <<128 + (r - 2), x[i]>> \o encodeFrom(x, i + r)
         ELSE LET n == Min(LitLen(x, i), 128)
              IN  <<n - 1>> \o SubSeq(x, i, i + n - 1) \o encodeFrom(x, i + n)

encode(x) == encodeFrom(x, 1)

RawAlphabet == {0, 127, 255}

RawInputs ==
    UNION {[1..k -> RawAlphabet] : k \in 0..MaxRaw}
        \cup {Rep(127, n) : n \in {129, 130, 131}}
        \cup {[j \in 1..n |-> (j * 3) % 256] : n \in {128, 129, 130}}
        \cup {Rep(0, 129) \o [j \in 1..130 |-> (j * 5) % 256] \o Rep(255, 2)}

\* The calls: a stream built from runs, the encoding of a raw sequence, and
\* a stream of runs cut short (most of them inside a run).  Each call keeps
\* what its stream was built from.
RleCall(kind, arg, runs, raw) ==
    [fn |-> "decompressRLE", arg |-> arg, ret |-> <<>>, done |-> FALSE,
     kind |-> kind, runs |-> runs, raw |-> raw]

CutLists == [1..1 -> RleRuns] \cup [1..2 -> RepeatRuns]

RleCalls ==
    {RleCall("runs", EncodeRuns(rs), rs, <<>>) : rs \in RunLists}
        \cup {RleCall("encoded", encode(x), <<>>, x) : x \in RawInputs}
        \cup UNION {{RleCall("cut", SubSeq(EncodeRuns(rs), 1, n), rs, <<>>) :
                        n \in 1..(Len(EncodeRuns(rs)) - 1)} : rs \in CutLists}

InitRle == InitWith({QuietMenu}) /\ call \in RleCalls

CallDecompress ==
    /\ call.fn = "decompressRLE" /\ ~call.done
    /\ call' = [call EXCEPT !.ret = decompressRLE(call.arg), !.done = TRUE]
    /\ UNCHANGED <<printer, bytes, wire, abandoned, menu, nSent, prev, event,
                   fed, pkt, acct, delivered>>

SpecRle == InitRle /\ [][CallDecompress]_vars

\* --------------------------------------------- renderImage on its own
\* Buffers of whole tiles with 0, 1 or 15 bytes left over.
RenderLengths ==
    {bytesPerTile * k + r : k \in 0..MaxTiles, r \in {0, 1, 15}}

TileByte(pattern, j) ==
    CASE pattern = "zero" -> 0
      [] pattern = "ones" -> 255
      [] pattern = "low" -> IF j % 2 = 1 THEN 255 ELSE 0
      [] pattern = "high" -> IF j % 2 = 1 THEN 0 ELSE 255
      [] pattern = "ramp" -> (j * 7) % 256

TilePatterns == {"zero", "ones", "low", "high", "ramp"}

RenderCalls ==
    {[fn |-> "renderImage", arg |-> [j \in 1..n |-> TileByte(p, j)],
      ret |-> <<>>, done |-> FALSE, kind |-> p, runs |-> <<>>, raw |-> <<>>] :
        n \in RenderLengths, p \in TilePatterns}

InitRender == InitWith({TileMenu}) /\ call \in RenderCalls

CallRender ==
    /\ call.fn = "renderImage" /\ ~call.done
    /\ printer' = renderImage(printer, call.arg)
    /\ call' = [call EXCEPT !.done = TRUE]
    /\ UNCHANGED <<bytes, wire, abandoned, menu, nSent, prev, event, fed, pkt,
                   acct, delivered>>

SpecRender == InitRender /\ [][CallRender]_vars

\* ================================================================ claims
ByteStep == event.kind = "byte"
AbortFired == ByteStep /\ AbortNow(fed)
IdleTimeout == event.kind = "fail" /\ event.elapsed > PRINT_TIMEOUT_MS
IsPrefix(a, b) == Len(a) <= Len(b) /\ SubSeq(b, 1, Len(a)) = a

\* A Data packet with a payload has just been fed completely, from
\* WaitCommand, without the abort sequence completing on the way.
DataPacketFed ==
    /\ ByteStep
    /\ pkt.done
    /\ pkt.fromWait
    /\ pkt.fed[1] = DATA
    /\ DeclaredLength(pkt.fed) >= 1

DataPacketResult ==
    IF pkt.fed[2] = 0
    THEN pkt.buf \o PktPayload(pkt.fed)
    ELSE pkt.buf \o decompressRLE(PktPayload(pkt.fed))

C1_PacketAssembled ==
    DataPacketFed =>
        /\ printer.parserState = WAIT_COMMAND
        /\ printer.printData = DataPacketResult

\* C1 (as stated): a complete Data packet fed from WaitCommand leaves the
\* parser in WaitCommand with PrintBuffer = B ++ payload (decompressed when
\* the flag is 1), and PrintBuffer always equals the concatenation of the
\* payloads of the Data packets dispatched since the last reset (stream-start
\* marker, print-trigger marker, abort sequence, dispatched Init packet,
\* print timeout).
C1_Original ==
    /\ C1_PacketAssembled
    /\ printer.printData = acct.expect

\* What the code does keep: the same statement with the acceptance of an
\* Init command byte in WaitCommand counted as one more reset (the code
\* empties PrintBuffer there, before the Init packet is dispatched and also
\* when that packet is never completed).
C1_DataPacketAppends ==
    /\ C1_PacketAssembled
    /\ printer.printData = acct.expectInit

\* An RLE Data packet has been dispatched onto a non-empty PrintBuffer.
C1_Witness ==
    /\ DataPacketFed
    /\ pkt.fed[2] = 1
    /\ pkt.buf # <<>>
    /\ Len(printer.printData) > Len(pkt.buf) + Len(PktPayload(pkt.fed))

\* C2: once the 10 bytes ABORTPRINT have been fed, whatever the parser state
\* and the PrintBuffer before, the parser is in WaitCommand and PrintBuffer
\* and the pending payload are empty.
C2_AbortResets ==
    AbortFired =>
        /\ printer.parserState = WAIT_COMMAND
        /\ printer.printData = <<>>
        /\ printer.currentPacketData = <<>>

\* The abort sequence ended inside a payload with bytes outstanding, with a
\* non-empty PrintBuffer.
C2_Witness ==
    /\ AbortFired
    /\ prev.parserState = READ_DATA
    /\ prev.currentLength - prev.currentDataIndex > 1
    /\ prev.printData # <<>>
    /\ printer.parserState = WAIT_COMMAND
    /\ printer.printData = <<>>

\* What a byte step leaves alone when it touches neither the session nor
\* the sink.
SessionUntouched ==
    /\ printer.printData = prev.printData
    /\ printer.canvases = prev.canvases
    /\ printer.imageCount = prev.imageCount

StartMarkerFed == ByteStep /\ event.byte = StartMarker

\* C3 (as stated): from any parser state and any PrintBuffer, the byte 0xFF
\* yields WaitCommand with an empty PrintBuffer.
C3_Original ==
    StartMarkerFed =>
        /\ printer.parserState = WAIT_COMMAND
        /\ printer.printData = <<>>

\* C3 (amended): fed in WaitCommand, 0xFF yields WaitCommand with an empty
\* PrintBuffer and an empty pending payload.  In the other states it is an
\* ordinary byte and removes nothing from PrintBuffer: a desync in
\* WaitCompression and in WaitLengthHigh (to WaitCommand, PrintBuffer
\* unchanged), the low length byte in WaitLengthLow (to WaitLengthHigh), a
\* payload byte in ReadData.
C3_StartMarkerOnlyInWaitCommand ==
    StartMarkerFed =>
        CASE prev.parserState = WAIT_COMMAND ->
                /\ printer.parserState = WAIT_COMMAND
                /\ printer.printData = <<>>
                /\ printer.currentPacketData = <<>>
          [] prev.parserState = WAIT_COMPRESSION ->
                /\ printer.parserState = WAIT_COMMAND
                /\ SessionUntouched
          [] prev.parserState = WAIT_LEN_LOW ->
                /\ printer.parserState = WAIT_LEN_HIGH
                /\ printer.currentLength = 255
                /\ SessionUntouched
          [] prev.parserState = WAIT_LEN_HIGH ->
                /\ printer.parserState = WAIT_COMMAND
                /\ SessionUntouched
          [] prev.parserState = READ_DATA ->
                /\ IsPrefix(prev.printData, printer.printData)
                /\ printer.canvases = prev.canvases
                /\ \/ printer.currentPacketData =
                          Append(prev.currentPacketData, 255)
                   \/ pkt.done /\ pkt.fed[1] = INIT

\* 0xFF fed in WaitCommand has emptied a non-empty PrintBuffer.
C3_Witness ==
    /\ StartMarkerFed
    /\ prev.parserState = WAIT_COMMAND
    /\ prev.printData # <<>>
    /\ printer.printData = <<>>

\* C4 (as stated): from any parser state and any PrintBuffer, an idle
\* timeout yields WaitCommand with an empty PrintBuffer.
C4_Original ==
    IdleTimeout =>
        /\ printer.parserState = WAIT_COMMAND
        /\ printer.printData = <<>>

\* C4 (amended): after an idle timeout PrintBuffer is empty; the parser is
\* returned to WaitCommand when PrintBuffer was non-empty, and keeps its state
\* (possibly inside a packet) when PrintBuffer was already empty.
C4_IdleTimeoutResetsNonEmpty ==
    IdleTimeout =>
        /\ printer.printData = <<>>
        /\ IF prev.printData # <<>>
           THEN printer.parserState = WAIT_COMMAND
           ELSE printer.parserState = prev.parserState

\* An idle timeout came inside a packet while PrintBuffer held data.
C4_Witness ==
    /\ IdleTimeout
    /\ prev.printData # <<>>
    /\ prev.parserState = READ_DATA
    /\ printer.parserState = WAIT_COMMAND

\* The four session-reset triggers.
StartTrigger ==
    ByteStep /\ ~AbortNow(fed) /\ prev.parserState = WAIT_COMMAND
             /\ event.byte = StartMarker
PrintTrigger ==
    ByteStep /\ ~AbortNow(fed) /\ prev.parserState = WAIT_COMMAND
             /\ event.byte = PrintMarker
InitDispatched == ByteStep /\ pkt.done /\ pkt.fed[1] = INIT
ResetTrigger == AbortFired \/ StartTrigger \/ PrintTrigger \/ InitDispatched

LengthByteFed == ByteStep /\ prev.parserState = WAIT_LEN_HIGH
LengthFed == prev.currentLength + 256 * event.byte

DispatchEffect ==
    CASE prev.currentCommand = INIT ->
            /\ printer.printData = <<>>
            /\ printer.statusText = "Ready for print data"
      [] prev.currentCommand = DATA ->
            /\ printer.printData = prev.printData
            /\ printer.statusText = "Receiving"
      [] prev.currentCommand = PRINT ->
            /\ printer.printData = prev.printData
            /\ printer.statusText = "Waiting for image..."
      [] OTHER ->
            /\ printer.printData = prev.printData
            /\ printer.statusText = prev.statusText

\* C6: in WaitLengthHigh the declared length is low | (high << 8); above 1000
\* the parser goes straight to WaitCommand, dispatches nothing and leaves
\* PrintBuffer unchanged; 1..1000 (1000 included) enters ReadData; 0
\* dispatches the packet at once and returns to WaitCommand.
C6_LengthGuard ==
    LengthByteFed =>
        /\ printer.currentLength = LengthFed
        /\ printer.canvases = prev.canvases
        /\ LengthFed > 1000 =>
              /\ printer.parserState = WAIT_COMMAND
              /\ printer.printData = prev.printData
              /\ printer.statusText = prev.statusText
              /\ ~pkt.done
        /\ (LengthFed >= 1 /\ LengthFed <= 1000) =>
              /\ printer.parserState = READ_DATA
              /\ printer.currentDataIndex = 0
              /\ printer.currentPacketData = <<>>
              /\ printer.printData = prev.printData
              /\ printer.statusText = prev.statusText
        /\ LengthFed = 0 =>
              /\ printer.parserState = WAIT_COMMAND
              /\ pkt.done
              /\ DispatchEffect

\* A declared length of exactly 1000 has been accepted.
C6_Witness ==
    /\ LengthByteFed
    /\ LengthFed = 1000
    /\ printer.parserState = READ_DATA

\* A declared length of 2000 has been refused with data in PrintBuffer.
C6_WitnessOversized ==
    /\ LengthByteFed
    /\ LengthFed = 2000
    /\ prev.printData # <<>>
    /\ printer.parserState = WAIT_COMMAND

\* A zero-length Data packet has been dispatched.
C6_WitnessEmpty ==
    /\ LengthByteFed
    /\ LengthFed = 0
    /\ prev.currentCommand = DATA
    /\ printer.parserState = WAIT_COMMAND

CompressionByteFed == ByteStep /\ prev.parserState = WAIT_COMPRESSION

\* C7: in WaitCompression 0x00 or 0x01 is stored as the flag and the parser
\* moves to WaitLengthLow; any other byte returns the parser to WaitCommand,
\* dispatches nothing and is consumed: neither a marker (PrintBuffer and the
\* images are untouched) nor a command (no packet is opened).
C7_CompressionByte ==
    CompressionByteFed =>
        IF event.byte \in {0, 1}
        THEN /\ printer.currentCompression = event.byte
             /\ printer.parserState = WAIT_LEN_LOW
             /\ SessionUntouched
        ELSE /\ printer.parserState = WAIT_COMMAND
             /\ SessionUntouched
             /\ printer.currentCommand = prev.currentCommand
             /\ printer.currentCompression = prev.currentCompression
             /\ printer.currentPacketData = prev.currentPacketData
             /\ printer.statusText = prev.statusText

\* 0xFF arrived as the compression byte while PrintBuffer held data.
C7_Witness ==
    /\ CompressionByteFed
    /\ event.byte = StartMarker
    /\ prev.printData # <<>>
    /\ printer.printData = prev.printData
    /\ printer.parserState = WAIT_COMMAND

PrintMarkerFed ==
    ByteStep /\ event.byte = PrintMarker /\ prev.parserState = WAIT_COMMAND

NoAbortIn(f) ==
    \A i \in 1..Len(f) : i + 9 > Len(f) \/ SubSeq(f, i, i + 9) # abortMarker

\* The whole stream so far is 0xFF, one raw Data packet of k tiles, 0xFE.
TileStreamFed ==
    /\ ByteStep
    /\ Len(fed) >= 6
    /\ fed[1] = StartMarker
    /\ fed[Len(fed)] = PrintMarker
    /\ fed[2] = DATA
    /\ fed[3] = 0
    /\ PktComplete(SubSeq(fed, 2, Len(fed) - 1))
    /\ DeclaredLength(SubSeq(fed, 2, 5)) >= bytesPerTile
    /\ DeclaredLength(SubSeq(fed, 2, 5)) % bytesPerTile = 0
    /\ NoAbortIn(fed)
    /\ acct.cancels = 0

TilesFed == DeclaredLength(SubSeq(fed, 2, 5)) \div 16

RowsOf(k) == CHOOSE r \in 0..k : 20 * r >= k /\ 20 * (r - 1) < k

\* C9: from the initial state, 0xFF, one raw Data packet of 16*k payload
\* bytes (k >= 1) and 0xFE yield exactly one image, 160 wide and
\* 8*ceil(k/20) high, built from exactly the payload bytes in order, and
\* leave PrintBuffer empty and the parser in WaitCommand.
C9_EndToEnd ==
    TileStreamFed =>
        /\ Len(printer.canvases) = 1
        /\ printer.imageCount = 1
        /\ printer.canvases[1].width = 160
        /\ printer.canvases[1].height = 8 * RowsOf(TilesFed)
        /\ printer.canvases[1].data = SubSeq(fed, 6, Len(fed) - 1)
        /\ printer.printData = <<>>
        /\ printer.parserState = WAIT_COMMAND

\* The stream carried 21 tiles and the image has two tile rows.
C9_Witness ==
    /\ TileStreamFed
    /\ TilesFed = 21
    /\ Len(printer.canvases) = 1
    /\ printer.canvases[1].height = 16

\* The stream carried the single 16-byte tile.
C9_WitnessOneTile ==
    /\ TileStreamFed
    /\ TilesFed = 1
    /\ printer.canvases[1].height = 8

OtherPacketDispatched ==
    ByteStep /\ pkt.done /\ pkt.fed[1] \in {PRINT, INQUIRY, BREAK}

\* C10: dispatching a Print, Inquiry or Break packet, whatever its flag and
\* payload, leaves PrintBuffer unchanged and produces no image.
C10_OtherCommandsLeaveBuffer ==
    OtherPacketDispatched =>
        /\ printer.parserState = WAIT_COMMAND
        /\ SessionUntouched

\* A Print packet with a payload has been dispatched over a non-empty buffer.
C10_Witness ==
    /\ OtherPacketDispatched
    /\ pkt.fed[1] = PRINT
    /\ Len(PktPayload(pkt.fed)) > 0
    /\ prev.printData # <<>>
    /\ printer.printData = prev.printData

\* A Break packet flagged as compressed, with a payload, has been dispatched.
C10_WitnessBreak ==
    /\ OtherPacketDispatched
    /\ pkt.fed[1] = BREAK
    /\ pkt.fed[2] = 1
    /\ Len(PktPayload(pkt.fed)) > 0
    /\ prev.printData # <<>>

\* The abort sequence began right after a Data command byte, while the
\* parser was waiting for the compression byte.
C2_WitnessFromCompression ==
    /\ AbortFired
    /\ Len(fed) >= 11
    /\ fed[Len(fed) - 10] = DATA
    /\ pkt.aborted
    /\ printer.printData = <<>>

\* ------------------------------------------------------------------- C11
\* The bytes observed since the abort signal last fired (or since the start).
RECURSIVE SinceFiring(_)
SinceFiring(f) ==
    IF f = <<>> THEN <<>>
    ELSE LET w == Append(SinceFiring(SubSeq(f, 1, Len(f) - 1)), f[Len(f)])
         IN  IF LastN(w, 10) = abortMarker THEN <<>> ELSE w

\* What the program shows of a firing: the window emptied and the status set.
AbortSignal ==
    /\ ByteStep
    /\ printer.recentBytes = <<>>
    /\ printer.statusText = "Print aborted - ready"

\* C11: the abort signal fires on a byte exactly when the last ten bytes
\* observed since the previous firing (or the start) spell ABORTPRINT,
\* whatever the parser state, the chunking and the resets in between; after
\* a firing the window is empty, and it never holds more than ten bytes.
C11_AbortWindow ==
    /\ Len(printer.recentBytes) <= 10
    /\ printer.recentBytes = LastN(SinceFiring(fed), 10)
    /\ ByteStep =>
         LET before == SinceFiring(SubSeq(fed, 1, Len(fed) - 1))
         IN  /\ AbortSignal <=> LastN(Append(before, event.byte), 10) = abortMarker
             /\ AbortSignal => Len(before) >= 9 /\ SinceFiring(fed) = <<>>
             /\ ~AbortSignal => printer.recentBytes # <<>>

\* A second firing, reached in the middle of a packet's payload.
C11_Witness ==
    /\ AbortSignal
    /\ prev.parserState = READ_DATA
    /\ Len(fed) >= 20
    /\ \E n \in 10..(Len(fed) - 10) : AbortNow(SubSeq(fed, 1, n))

\* A firing completed by the last byte of a chunk, in a run where an idle
\* timeout has cancelled a print before.
C11_WitnessAcrossChunks ==
    /\ AbortSignal
    /\ Len(bytes) = 0
    /\ event.byte = 84
    /\ Len(fed) > 10
    /\ acct.cancels > 0

\* ------------------------------------------------------------------- C12
\* A byte met in WAIT_COMMAND that is no marker and no command code and does
\* not complete the abort sequence.
IgnoredByteFed ==
    /\ ByteStep
    /\ prev.parserState = WAIT_COMMAND
    /\ event.byte \notin {StartMarker, PrintMarker} \cup validCommands
    /\ ~AbortNow(fed)

\* C12: in WAIT_COMMAND a byte that is not 0xFF, not 0xFE, not a command code
\* (the sync bytes 0x88 and 0x33 included) and does not complete the abort
\* sequence leaves the parser state, the print buffer and the pending packet
\* unchanged and renders nothing; only the marker window advances (and the
\* byte is counted).
C12_IgnoredByte ==
    IgnoredByteFed =>
        printer = [prev EXCEPT
                     !.recentBytes = LastN(Append(prev.recentBytes, event.byte), 10),
                     !.totalBytesReceived = @ + 1]

\* The sync byte 0x88 ignored while a print is in progress.
C12_Witness ==
    /\ IgnoredByteFed
    /\ event.byte = 136
    /\ prev.printData # <<>>
    /\ prev.currentPacketData # <<>>

C12_WitnessSync33 == IgnoredByteFed /\ event.byte = 51 /\ prev.printData # <<>>

C12_WitnessUnknown ==
    IgnoredByteFed /\ event.byte \notin {136, 51} /\ prev.printData # <<>>

\* ------------------------------------------------------------------- C18
\* C18: the idle-timeout policy acts only while the print buffer is
\* non-empty: it then empties the print buffer and the pending payload and
\* sets WAIT_COMMAND; with an empty print buffer the timeout changes nothing
\* of the parser or the session, even inside a partly received packet.
C18_IdleTimeoutOnlyNonEmpty ==
    /\ IdleTimeout /\ prev.printData # <<>> =>
         /\ printer.printData = <<>>
         /\ printer.currentPacketData = <<>>
         /\ printer.parserState = WAIT_COMMAND
    /\ IdleTimeout /\ prev.printData = <<>> => printer = prev
    /\ event.kind = "fail" /\ printer # prev =>
         prev.printData # <<>> /\ event.elapsed > PRINT_TIMEOUT_MS

\* An idle timeout inside a packet's payload while the print buffer is empty.
C18_Witness ==
    /\ IdleTimeout
    /\ prev.printData = <<>>
    /\ prev.parserState = READ_DATA
    /\ prev.currentPacketData # <<>>
    /\ printer.parserState = READ_DATA

\* An idle timeout discarding a buffer and a partly received payload.
C18_WitnessNonEmpty ==
    /\ IdleTimeout
    /\ prev.printData # <<>>
    /\ prev.currentPacketData # <<>>
    /\ prev.parserState \in {WAIT_COMPRESSION, WAIT_LEN_LOW, WAIT_LEN_HIGH, READ_DATA}
    /\ printer.currentPacketData = <<>>

\* ------------------------------------------------------------------- C19
\* C19 (as stated): every chunk the device delivers is fed to the parser
\* exactly once, byte by byte in arrival order, read timeouts included: the
\* bytes fed so far and those of the current chunk still to feed are exactly
\* the bytes delivered; and a failed read changes the parser and the session
\* only when the print-timeout policy fires.
C19_Original ==
    /\ delivered = fed \o bytes
    /\ event.kind = "fail" /\ printer # prev =>
         prev.printData # <<>> /\ event.elapsed > PRINT_TIMEOUT_MS

\* ------------------------------------------------------------------- C20
\* A packet begun in WAIT_COMMAND that this byte has not dispatched: it is
\* still being received, or this byte has just desynchronized it.
PacketUndispatched ==
    /\ ByteStep
    /\ pkt.fromWait /\ ~pkt.aborted /\ ~pkt.done
    /\ \/ pkt.open
       \/ PktDesync(pkt.fed) /\ prev.parserState # WAIT_COMMAND

\* C20 (as stated): a packet modifies the print buffer only when it is
\* dispatched; until then, and when it is dropped for an invalid compression
\* byte or an oversized length (an Init packet included), the print buffer is
\* exactly as it was before the command byte.
C20_Original == PacketUndispatched => printer.printData = pkt.buf

\* The same for every command but Init.
C20_ExceptInit ==
    PacketUndispatched /\ pkt.fed[1] # INIT => printer.printData = pkt.buf

\* ------------------------------------------------------------------- C13
RleDone == call.fn = "decompressRLE" /\ call.done

\* C13: decompressRLE reads its input left to right as runs: a control byte
\* with the high bit set and a value byte give (c & 0x7F) + 2 copies of the
\* value, a control byte c with the high bit clear and the c + 1 bytes after
\* it give those bytes; the output is the concatenation of the runs.  So
\* 02 AA BB CC gives AA BB CC and 83 7F gives five 7F.
C13_Runs ==
    /\ RleDone /\ call.kind = "runs" => call.ret = RunsOutput(call.runs)
    /\ RleDone /\ call.arg = <<2, 170, 187, 204>> => call.ret = <<170, 187, 204>>
    /\ RleDone /\ call.arg = <<131, 127>> => call.ret = <<127, 127, 127, 127, 127>>

\* A repeat run of 129 followed by a literal run of two bytes.
C13_Witness ==
    /\ RleDone /\ call.kind = "runs"
    /\ Len(call.runs) = 2
    /\ call.runs[1].kind = "repeat" /\ call.runs[1].n = 129
    /\ call.runs[2].kind = "literal" /\ call.runs[2].n = 2
    /\ Len(call.ret) = 131

C13_WitnessLiteralExample == RleDone /\ call.arg = <<2, 170, 187, 204>>

C13_WitnessRepeatExample == RleDone /\ call.arg = <<131, 127>>

\* ------------------------------------------------------------------- C14
\* C14: for every raw sequence x, decompressRLE(encode(x)) = x, with encode
\* the reference encoder (repeat runs of 2..129, literal runs of 1..128).
C14_RoundTrip ==
    RleDone /\ call.kind = "encoded" => call.ret = call.raw

\* A raw sequence whose encoding needs repeat runs and literal runs, split
\* at the longest run lengths.
C14_Witness ==
    /\ RleDone /\ call.kind = "encoded"
    /\ Len(call.raw) > 258
    /\ call.arg[1] = 255
    /\ call.ret = call.raw

C14_WitnessShort ==
    /\ RleDone /\ call.kind = "encoded"
    /\ call.raw = <<0, 0, 127, 255, 255>>
    /\ call.arg = <<128, 0, 0, 127, 128, 255>>

\* ------------------------------------------------------------------- C15
\* decompress as section 4.4 asks for a stream that ends inside a run: the
\* bytes missing are absent, the run stops early.
RECURSIVE LenientFrom(_, _)
LenientFrom(data, i) ==
    IF i > Len(data) THEN <<>>
    ELSE IF data[i] >= 128
    THEN IF i + 1 > Len(data) THEN <<>>
         ELSE Rep(data[i + 1], data[i] - 128 + 2) \o LenientFrom(data, i + 2)
    ELSE LET n == Min(data[i] + 1, Len(data) - i)
         IN  SubSeq(data, i + 1, i + n) \o LenientFrom(data, i + 1 + n)

\* The stream ends inside its last run.
EndsInsideRun ==
    /\ call.kind = "cut"
    /\ \A k \in 0..Len(call.runs) :
         call.arg # EncodeRuns(SubSeq(call.runs, 1, k))

\* C15 (as stated): when the input ends in the middle of a run the run stops
\* early: only bytes present in the input are emitted (nothing for a repeat
\* whose value byte is missing), the output is shorter than that of the
\* well-formed stream, and decompressRLE returns normally.
C15_Original ==
    RleDone /\ EndsInsideRun =>
        /\ call.ret = LenientFrom(call.arg, 1)
        /\ Len(call.ret) < Len(RunsOutput(call.runs))

\* The literal half: a literal run cut short gives the bytes present.
C15_LiteralCut ==
    RleDone /\ EndsInsideRun /\ call.runs[Len(call.runs)].kind = "literal" =>
        /\ call.ret = LenientFrom(call.arg, 1)
        /\ Len(call.ret) < Len(RunsOutput(call.runs))

\* ------------------------------------------------------------------- C16
RenderDone == call.fn = "renderImage" /\ call.done

Rendered == printer.canvases[Len(printer.canvases)]

WholeTiles(data) == SubSeq(data, 1, 16 * (Len(data) \div 16))

\* The canvas of a buffer: dimensions and every pixel.
SameImage(c, d) ==
    /\ c.width = d.width /\ c.height = d.height
    /\ \A x \in 0..(c.width - 1) : \A y \in 0..(c.height - 1) :
         canvasPixel(c, x, y) = canvasPixel(d, x, y)

C16_WitnessNoTile == RenderDone /\ Len(call.arg) = 15 /\ Rendered.height = 0

\* ------------------------------------------------------------------- C17
BitOf(b, k) == (b \div (2 ^ k)) % 2

Grey(index) ==
    CASE index = 0 -> 255 [] index = 1 -> 170 [] index = 2 -> 85 [] index = 3 -> 0

\* C17: in every 16-byte tile the pixel at row r and column c gets colour
\* index ((lo >> (7 - c)) & 1) | (((hi >> (7 - c)) & 1) << 1) with
\* lo = tile[2r] and hi = tile[2r + 1], mapped to grey 255, 170, 85, 0; an
\* all-zero tile is a solid block of the lightest colour, an all-0xFF tile
\* of the darkest.
C17_TilePixels ==
    RenderDone =>
        \A t \in 0..(Rendered.totalTiles - 1) : \A r \in 0..7 : \A c \in 0..7 :
            LET lo == call.arg[16 * t + 2 * r + 1]
                hi == call.arg[16 * t + 2 * r + 2]
                g == Grey(BitOf(lo, 7 - c) + 2 * BitOf(hi, 7 - c))
                px == canvasPixel(Rendered, (t % 20) * 8 + c, (t \div 20) * 8 + r)
            IN  /\ px = <<g, g, g, 255>>
                /\ call.kind = "zero" => g = 255
                /\ call.kind = "ones" => g = 0

\* Tiles whose two planes differ, so that all four colours appear.
C17_Witness ==
    /\ RenderDone
    /\ call.kind = "ramp"
    /\ Rendered.totalTiles = 21
    /\ \A g \in {<<255, 255, 255, 255>>, <<170, 170, 170, 255>>,
                  <<85, 85, 85, 255>>, <<0, 0, 0, 255>>} :
         \E x \in 0..7 : \E y \in 0..7 : canvasPixel(Rendered, x, y) = g

C17_WitnessLowPlane ==
    /\ RenderDone
    /\ call.kind = "low"
    /\ Rendered.totalTiles = 1
    /\ canvasPixel(Rendered, 0, 0) = <<170, 170, 170, 255>>

C17_WitnessSolid ==
    /\ RenderDone
    /\ call.kind = "ones"
    /\ Rendered.totalTiles = 2
    /\ canvasPixel(Rendered, 15, 7) = <<0, 0, 0, 255>>

\* ------------------------------------------------------------------- C21
\* A marker byte met outside WAIT_COMMAND.
MarkerByteInPacket ==
    /\ ByteStep
    /\ event.byte \in {StartMarker, PrintMarker}
    /\ prev.parserState \in {WAIT_COMPRESSION, WAIT_LEN_LOW, WAIT_LEN_HIGH, READ_DATA}

MarkerStatus == {"Ready for print", "Image received! Waiting for more..."}

\* C21: 0xFF and 0xFE act as markers only in WAIT_COMMAND: in the other
\* states they never clear the print buffer and never render, and in
\* READ_DATA they are taken into the payload like any other byte (which the
\* same byte may complete and dispatch); a render or a stream-start reset
\* happens only on a step taken from WAIT_COMMAND.
C21_MarkersOnlyInWaitCommand ==
    /\ MarkerByteInPacket =>
         /\ printer.canvases = prev.canvases
         /\ printer.imageCount = prev.imageCount
         /\ IsPrefix(prev.printData, printer.printData)
         /\ printer.statusText \in MarkerStatus => printer.statusText = prev.statusText
         /\ prev.parserState = READ_DATA =>
              LET payload == Append(prev.currentPacketData, event.byte)
              IN  IF Len(payload) < prev.currentLength
                  THEN /\ printer.parserState = READ_DATA
                       /\ printer.currentPacketData = payload
                       /\ printer.printData = prev.printData
                  ELSE /\ printer.parserState = WAIT_COMMAND
                       /\ prev.currentCommand = DATA /\ prev.currentCompression = 0 =>
                            printer.printData = prev.printData \o payload
    /\ ByteStep /\ printer.canvases # prev.canvases =>
         prev.parserState = WAIT_COMMAND /\ event.byte = PrintMarker
    /\ ByteStep /\ printer.statusText = "Ready for print"
                /\ prev.statusText # "Ready for print" =>
         prev.parserState = WAIT_COMMAND /\ event.byte = StartMarker

\* 0xFF taken as the first payload byte while the print buffer holds data.
C21_Witness ==
    /\ MarkerByteInPacket
    /\ event.byte = StartMarker
    /\ prev.parserState = READ_DATA
    /\ prev.printData # <<>>
    /\ printer.currentPacketData = <<255>>

\* 0xFE completing a Data packet: appended, nothing rendered.
C21_WitnessPrintMarker ==
    /\ MarkerByteInPacket
    /\ event.byte = PrintMarker
    /\ prev.parserState = READ_DATA
    /\ prev.printData # <<>>
    /\ printer.printData = prev.printData \o <<255, 254>>

C21_WitnessHeader ==
    /\ MarkerByteInPacket
    /\ prev.parserState = WAIT_LEN_HIGH
    /\ prev.printData # <<>>
    /\ printer.printData = prev.printData

\* ------------------------------------------------------------------- C22
\* What the dispatch of a packet with the given payload leaves behind.
DispatchOf(payload) ==
    CASE prev.currentCommand = INIT ->
            /\ printer.printData = <<>>
            /\ printer.currentPacketData = <<>>
            /\ printer.statusText = "Ready for print data"
      [] prev.currentCommand = DATA ->
            /\ printer.printData =
                  prev.printData \o (IF prev.currentCompression = 0 THEN payload
                                     ELSE decompressRLE(payload))
            /\ printer.currentPacketData = payload
            /\ printer.statusText = "Receiving"
      [] prev.currentCommand = PRINT ->
            /\ printer.printData = prev.printData
            /\ printer.currentPacketData = payload
            /\ printer.statusText = "Waiting for image..."
      [] OTHER ->
            /\ printer.printData = prev.printData
            /\ printer.currentPacketData = payload
            /\ printer.statusText = prev.statusText

PayloadByteFed == ByteStep /\ prev.parserState = READ_DATA /\ ~AbortNow(fed)

\* C22: whenever the parser is in READ_DATA, 1 <= currentLength <= 1000,
\* 0 <= currentDataIndex < currentLength and currentPacketData holds exactly
\* currentDataIndex bytes; a packet is dispatched exactly on the byte that
\* makes currentDataIndex equal currentLength, with a payload of exactly
\* currentLength bytes.
C22_ReadDataInvariant ==
    /\ printer.parserState = READ_DATA =>
         /\ 1 <= printer.currentLength /\ printer.currentLength <= 1000
         /\ 0 <= printer.currentDataIndex
         /\ printer.currentDataIndex < printer.currentLength
         /\ Len(printer.currentPacketData) = printer.currentDataIndex
    /\ PayloadByteFed =>
         LET payload == Append(prev.currentPacketData, event.byte)
         IN  IF prev.currentDataIndex + 1 = prev.currentLength
             THEN /\ printer.parserState = WAIT_COMMAND
                  /\ Len(payload) = prev.currentLength
                  /\ pkt.fromWait => pkt.done /\ PktPayload(pkt.fed) = payload
                  /\ DispatchOf(payload)
             ELSE /\ printer.parserState = READ_DATA
                  /\ printer.currentPacketData = payload
                  /\ printer.currentDataIndex = prev.currentDataIndex + 1
                  /\ printer.printData = prev.printData
                  /\ printer.statusText = prev.statusText
                  /\ ~pkt.done

\* The third byte of a three-byte payload dispatches a Data packet onto a
\* print buffer that already holds data.
C22_Witness ==
    /\ PayloadByteFed
    /\ prev.currentCommand = DATA
    /\ prev.currentLength = 3 /\ prev.currentDataIndex = 2
    /\ prev.printData # <<>>
    /\ Len(printer.printData) = Len(prev.printData) + 3

\* Inside a packet of the longest length accepted.
C22_WitnessLongest ==
    /\ printer.parserState = READ_DATA
    /\ printer.currentLength = 1000
    /\ printer.currentDataIndex > 0

\* ------------------------------------------------------------------- C23
\* The most bytes a parser in state s can take before it is in WAIT_COMMAND
\* again.
BytesToWaitCommand(s) ==
    CASE s.parserState = WAIT_COMMAND -> 0
      [] s.parserState = WAIT_COMPRESSION -> 1003
      [] s.parserState = WAIT_LEN_LOW -> 1002
      [] s.parserState = WAIT_LEN_HIGH -> 1001
      [] s.parserState = READ_DATA -> s.currentLength - s.currentDataIndex
      [] OTHER -> 1004

\* C23: from any reachable state and for any bytes that follow, the parser
\* is in WAIT_COMMAND again after at most 1003 further bytes: every byte
\* taken outside WAIT_COMMAND brings it strictly nearer, never more than
\* 1003 bytes in a row leave it outside, and it is never in a state without
\* a way back.
C23_BackToWaitCommand ==
    /\ BytesToWaitCommand(printer) <= 1003
    /\ acct.away <= 1003
    /\ ByteStep /\ prev.parserState # WAIT_COMMAND =>
         BytesToWaitCommand(printer) < BytesToWaitCommand(prev)
    /\ ByteStep /\ prev.parserState = WAIT_COMMAND =>
         BytesToWaitCommand(printer) \in {0, 1003}

\* The 1003rd byte in a row outside WAIT_COMMAND: one payload byte is left.
C23_Witness ==
    /\ ByteStep
    /\ acct.away = 1003
    /\ printer.parserState = READ_DATA
    /\ printer.currentLength = 1000 /\ printer.currentDataIndex = 999

\* The byte after it: back in WAIT_COMMAND with the packet dispatched.
C23_WitnessBack ==
    /\ ByteStep
    /\ prev.parserState = READ_DATA /\ prev.currentDataIndex = 999
    /\ printer.parserState = WAIT_COMMAND
    /\ Len(printer.printData) = 1000

\* ------------------------------------------------------------------- C24
\* C24: the parser state is never WAIT_START: it starts in WAIT_COMMAND and
\* no byte, dispatch, abort or timeout sets WAIT_START.
C24_NeverWaitStart ==
    /\ printer.parserState # WAIT_START
    /\ printer.parserState \in
         {WAIT_COMMAND, WAIT_COMPRESSION, WAIT_LEN_LOW, WAIT_LEN_HIGH, READ_DATA}

\* A packet dropped for its compression byte while a print is in progress.
C24_Witness ==
    /\ CompressionByteFed
    /\ event.byte \notin {0, 1}
    /\ printer.parserState = WAIT_COMMAND
    /\ printer.printData # <<>>

\* Back in WAIT_COMMAND by abort, after an idle timeout has cancelled a print.
C24_WitnessAbort ==
    /\ AbortSignal
    /\ prev.parserState = READ_DATA
    /\ printer.parserState = WAIT_COMMAND
    /\ acct.cancels > 0

\* ------------------------------------------------------------------- C25
\* C25: render draws tile i with its top-left pixel at
\* (8 * (i mod 20), 8 * (i div 20)); every pixel write lies inside the
\* width x height raster, no pixel is written by two tiles, and the pixels
\* of the tile positions from totalTiles on in the last tile row are never
\* written and keep the raster's default value.
C25_TilePlacement ==
    RenderDone =>
        LET c == Rendered
            W == pixelWrites(c)
            written == {<<w.x, w.y>> : w \in W}
        IN  /\ \A i \in 0..(c.totalTiles - 1) :
                 tileOrigin(i) = <<8 * (i % 20), 8 * (i \div 20)>>
            /\ \A w \in W :
                 /\ 0 <= w.x /\ w.x < c.width
                 /\ 0 <= w.y /\ w.y < c.height
                 /\ w.pixelOffset + 3 < c.width * c.height * 4
                 /\ w.x \div 8 = w.tile % 20 /\ w.y \div 8 = w.tile \div 20
                 /\ canvasPixel(c, w.x, w.y) = w.px
            /\ Cardinality(written) = 64 * c.totalTiles
            /\ Cardinality({w.pixelOffset : w \in W}) = 64 * c.totalTiles
            /\ \A j \in c.totalTiles..(20 * (c.height \div 8) - 1) :
                 \A row \in 0..7 : \A col \in 0..7 :
                    LET x == 8 * (j % 20) + col
                        y == 8 * (j \div 20) + row
                    IN  /\ <<x, y>> \notin written
                        /\ canvasPixel(c, x, y) = <<0, 0, 0, 0>>

\* Twenty-one tiles: the second tile row holds one tile and nineteen
\* positions that stay unwritten.
C25_Witness ==
    /\ RenderDone
    /\ Rendered.totalTiles = 21
    /\ call.kind = "ramp"
    /\ canvasPixel(Rendered, 7, 15) # <<0, 0, 0, 0>>
    /\ canvasPixel(Rendered, 8, 8) = <<0, 0, 0, 0>>

C25_WitnessFullRow ==
    /\ RenderDone
    /\ Rendered.totalTiles = 20
    /\ Rendered.height = 8
    /\ canvasPixel(Rendered, 159, 7) # <<0, 0, 0, 0>>

\* ------------------------------------------------------------------- C26
\* This byte made renderImage hand a canvas to the container.
RenderedNow ==
    /\ ByteStep
    /\ Len(printer.canvases) = Len(prev.canvases) + 1

LastCanvas == printer.canvases[Len(printer.canvases)]

C26_WitnessOneRow ==
    /\ RenderedNow
    /\ Len(prev.printData) = 19
    /\ LastCanvas.height = 8
====
